---- MODULE Spec2Model ----
(***************************************************************************)
(* A model of the band-block-diagonal preconditioner of KINSOL             *)
(* (kinbbdpre.c: KBBDAlloc, KBBDFree, KBBDPrecon, KBBDPSol, KBBDDQJac),    *)
(* of the generic nonlinear solver interface (sundials_nonlinearsolver.h)  *)
(* and of the Fortran matrix handles (fsunmatrix_*.c).                     *)
(*                                                                         *)
(* realtype values are exact rationals <<num, den>> in lowest terms with   *)
(* den > 0; the value <<0, 0>> stands for an indeterminate realtype (the   *)
(* content of storage that malloc returned and nothing has written yet).   *)
(***************************************************************************)
EXTENDS Integers, Sequences, FiniteSets, TLC

\* ------------------------------------------------------------------------
\* Bounds of the model
\* ------------------------------------------------------------------------
MaxN == 3

MaxBW == 2

MaxPrecon == 2

NegBW == 4

MaxIters == 3

MaxSolves == 2

\* one column of the difference quotient: |u_j| up to MaxU, scale_j up to
\* MaxScale
MaxU == 3

MaxScale == 2

\* FSUNMATRIX_INITD / FSUNMATRIX_INITS calls in one run
MaxInits == 3

\* ------------------------------------------------------------------------
\* realtype arithmetic
\* ------------------------------------------------------------------------
ABS(x) == IF x < 0 THEN -x ELSE x

MIN(a, b) == IF a < b THEN a ELSE b

MAX(a, b) == IF a > b THEN a ELSE b

RECURSIVE Gcd(_, _)
Gcd(a, b) == IF b = 0 THEN a ELSE Gcd(b, a % b)

Rat(n, d) ==
    LET s == IF d < 0 THEN -1 ELSE 1
        g == Gcd(ABS(n), ABS(d))
    IN  <<(s * n) \div g, (s * d) \div g>>

ZERO == <<0, 1>>

ONE == <<1, 1>>

Indet == <<0, 0>>

RInt(k) == <<k, 1>>

RDefined(x) == x[2] > 0

RAdd(x, y) == Rat(x[1] * y[2] + y[1] * x[2], x[2] * y[2])

RSub(x, y) == Rat(x[1] * y[2] - y[1] * x[2], x[2] * y[2])

RMul(x, y) == Rat(x[1] * y[1], x[2] * y[2])

RDiv(x, y) == Rat(x[1] * y[2], x[2] * y[1])

RNeg(x) == <<-x[1], x[2]>>

RABS(x) == <<ABS(x[1]), x[2]>>

RLess(x, y) == x[1] * y[2] < y[1] * x[2]

RMAX(x, y) == IF RLess(x, y) THEN y ELSE x

\* RSqrt on the perfect squares the model uses for the unit roundoff
RECURSIVE ISqrt(_, _)
ISqrt(n, r) == IF r * r >= n THEN r ELSE ISqrt(n, r + 1)

RSqrt(x) == <<ISqrt(x[1], 0), ISqrt(x[2], 0)>>

\* Sum of f[i] over a finite set of indices
RECURSIVE RSum(_, _)
RSum(f, S) ==
    IF S = {} THEN ZERO
    ELSE LET i == CHOOSE x \in S : TRUE
         IN  RAdd(f[i], RSum(f, S \ {i}))

\* ------------------------------------------------------------------------
\* Inputs: the values the callers and the user callbacks supply
\* ------------------------------------------------------------------------
Idx(N) == 0 .. (N - 1)

\* half-bandwidth arguments: the legal ones and two illegal (negative) ones
BWInputs == {-NegBW, -1} \cup (0 .. MaxBW)

\* kin_mem->kin_uround, the machine unit roundoff handed over by KINSOL
UROUND == <<1, 16>>

\* dq_rel_uu arguments: 0.0 (or a negative value) asks for the default
DqRelInputs == {ZERO, <<1, 2>>, <<-1, 2>>}

\* f_data: which local function g the user's gloc evaluates; g(u) = A u + b
\* with A = LocalJac(fd), b = LocalOffset(fd): the user's problem, an input
\* of the model
FDataInputs == {"tridiag", "swap", "dense", "zero", "lower"}

LocalJac(fd, i, j) ==
    CASE fd = "tridiag" -> (IF i = j THEN 2 ELSE IF ABS(i - j) = 1 THEN -1 ELSE 0)
      [] fd = "swap"    -> (IF i = j THEN 1 ELSE IF i = j + 1 THEN 2
                            ELSE IF j = i + 1 THEN 1 ELSE 0)
      [] fd = "dense"   -> 1
      [] fd = "lower"   -> (IF i = j THEN 3 ELSE IF i = j + 1 THEN 1 ELSE 0)
      [] OTHER          -> 0

LocalOffset(fd, i) == IF fd \in {"swap", "lower"} THEN i + 1 ELSE 0

\* uu and uscale vectors handed to KBBDPrecon
PreconInputs(N) ==
    {[uu |-> [j \in Idx(N) |-> RInt(2)], uscale |-> [j \in Idx(N) |-> ONE]],
     [uu |-> [j \in Idx(N) |-> RInt(j - 1)],
      uscale |-> [j \in Idx(N) |-> RInt(1 + (j % 2))]]}

\* right-hand sides handed to KBBDPSol
RhsInputs(N) == {[j \in Idx(N) |-> ONE], [j \in Idx(N) |-> RInt(j)]}

\* status a user callback reports (0 success, > 0 recoverable, < 0 fatal)
CallbackStatus == {0, 1, -1}

\* ------------------------------------------------------------------------
\* The user's local function gloc: gval = g(u)
\* ------------------------------------------------------------------------
Gloc(fd, N, u) ==
    [i \in Idx(N) |->
        RAdd(RSum([j \in Idx(N) |-> RMul(RInt(LocalJac(fd, i, j)), u[j])], Idx(N)),
             RInt(LocalOffset(fd, i)))]

\* ------------------------------------------------------------------------
\* The banded matrix store (band.c): an N x N matrix a[i][j] of which the
\* band j-mu <= i <= j+ml and the fill-in rows above it are stored
\* ------------------------------------------------------------------------
IndetMat(N) == [i \in Idx(N) |-> [j \in Idx(N) |-> Indet]]

IndetPiv(N) == [k \in Idx(N) |-> -1]

BandZero(N) == [i \in Idx(N) |-> [j \in Idx(N) |-> ZERO]]

\* BandAllocMat(N, mu, ml, smu) can hand out a store only if its columns
\* have a positive height smu + ml + 1
BandAllocMatPossible(N, mu, ml) == N > 0 /\ (mu + ml) + ml + 1 > 0

\* gbfa: row of the pivot of column k, the first entry of largest magnitude
\* among rows k .. last
RECURSIVE PivotRow(_, _, _, _, _)
PivotRow(a, k, i, last, l) ==
    IF i > last THEN l
    ELSE IF RLess(RABS(a[l][k]), RABS(a[i][k]))
         THEN PivotRow(a, k, i + 1, last, i)
         ELSE PivotRow(a, k, i + 1, last, l)

\* one elimination step of gbfa on column k with pivot row l
Eliminate(a, N, ml, smu, k, l) ==
    LET lastRow == MIN(N - 1, k + ml)
        lastCol == MIN(k + smu, N - 1)
        sw == [i \in Idx(N) |-> [j \in Idx(N) |->
                 IF (j = k \/ (j > k /\ j <= lastCol)) /\ i = k THEN a[l][j]
                 ELSE IF (j = k \/ (j > k /\ j <= lastCol)) /\ i = l THEN a[k][j]
                 ELSE a[i][j]]]
        mult == RDiv(RNeg(ONE), sw[k][k])
        sc == [i \in Idx(N) |-> [j \in Idx(N) |->
                 IF j = k /\ i > k /\ i <= lastRow THEN RMul(sw[i][k], mult)
                 ELSE sw[i][j]]]
    IN  [i \in Idx(N) |-> [j \in Idx(N) |->
            IF j > k /\ j <= lastCol /\ i > k /\ i <= lastRow
            THEN RAdd(sc[i][j], RMul(sc[k][j], sc[i][k]))
            ELSE sc[i][j]]]

\* BandFactor: LU with partial pivoting inside the band, in place; ier = 0 or
\* the 1-based column of a zero pivot
RECURSIVE BandFactor(_, _, _, _, _, _)
BandFactor(a, p, N, ml, smu, k) ==
    IF k = N - 1
    THEN [a |-> a, p |-> [p EXCEPT ![k] = N - 1],
          ier |-> IF a[N - 1][N - 1] = ZERO THEN N ELSE 0]
    ELSE LET l == PivotRow(a, k, k + 1, MIN(N - 1, k + ml), k)
             q == [p EXCEPT ![k] = l]
         IN  IF a[l][k] = ZERO
             THEN [a |-> a, p |-> q, ier |-> k + 1]
             ELSE BandFactor(Eliminate(a, N, ml, smu, k, l), q, N, ml, smu, k + 1)

\* gbsl, forward part: apply the row interchanges and multipliers to b
RECURSIVE ForwardSolve(_, _, _, _, _, _)
ForwardSolve(a, p, b, N, ml, k) ==
    IF k >= N - 1 THEN b
    ELSE LET l == p[k]
             m == b[l]
             bs == [b EXCEPT ![l] = b[k], ![k] = m]
             bn == [i \in Idx(N) |->
                      IF i > k /\ i <= MIN(N - 1, k + ml)
                      THEN RAdd(bs[i], RMul(m, a[i][k])) ELSE bs[i]]
         IN  ForwardSolve(a, p, bn, N, ml, k + 1)

\* gbsl, backward part: solve U x = b
RECURSIVE BackSolve(_, _, _, _, _)
BackSolve(a, b, N, smu, k) ==
    IF k < 0 THEN b
    ELSE LET x == RDiv(b[k], a[k][k])
             bn == [i \in Idx(N) |->
                      IF i = k THEN x
                      ELSE IF i < k /\ i >= MAX(0, k - smu)
                           THEN RSub(b[i], RMul(x, a[i][k])) ELSE b[i]]
         IN  BackSolve(a, bn, N, smu, k - 1)

\* the factors are usable: every pivot and entry was written and no diagonal
\* entry of U is zero
FactorsUsable(a, p, N) ==
    /\ \A k \in Idx(N) : p[k] \in Idx(N) /\ a[k][k] # ZERO
    /\ \A i \in Idx(N) : \A j \in Idx(N) : RDefined(a[i][j])

\* BandBacksolve: b := solution; with unusable factors the result is garbage
BandBacksolve(a, p, b, N, ml, smu) ==
    IF FactorsUsable(a, p, N)
    THEN BackSolve(a, ForwardSolve(a, p, b, N, ml, 0), N, smu, N - 1)
    ELSE [i \in Idx(N) |-> Indet]

\* ------------------------------------------------------------------------
\* State
\* ------------------------------------------------------------------------
VARIABLES
    pc,        \* where the driver is: "uninit", "idle", inside KBBDPrecon
               \* ("gcomm", "gloc0", "group", "factor"), "null" (KBBDAlloc
               \* returned NULL), "freed", "crashed"
    pdata,     \* the KBBDData record
    heap,      \* the blocks KBBDAlloc obtained and nothing released yet
    loc,       \* arguments and locals of the running KBBDPrecon / KBBDDQJac,
               \* with the calls it made so far (ngloc, ngcomm, groupsRun) and
               \* in how many evaluations each u_j was incremented (npert),
               \* how often it assigned each matrix element (writes) and
               \* where utemp differed from uu in the last evaluation (diff)
    ret,       \* the call that returned last and its return value, until the
               \* next call starts; for KBBDPrecon also the first failure
               \* status its callbacks reported, for KBBDAlloc the dq_rel_uu,
               \* whether kinmem was NULL and what was read through it,
               \* and for KBBDPSol the right-hand side it was handed
    vtem,      \* the vector KBBDPSol was handed, after the call
    hist,      \* history: calls of gloc and gcomm made for the instance, the
               \* statuses they reported, KBBDPrecon calls completed
    last,      \* history: inputs and results of the last completed KBBDPrecon
               \* (J: the matrix KBBDDQJac stored, before it was factored)
    nls,       \* the nonlinear solver
    dq,        \* one column of KBBDDQJac taken alone: its rel_uu, u_j and
               \* scale_j, the increment and its reciprocal
    F2C_matrix, \* the global matrix handles of the Fortran interface, one
               \* for each solver (NoMatrix: NULL)
    fcall      \* the FSUNMATRIX_INIT* call that returned last: its code and
               \* ier, and the handles before it

vars == <<pc, pdata, heap, loc, ret, vtem, hist, last, nls, dq, F2C_matrix, fcall>>

bbdvars == <<pc, pdata, heap, loc, ret, vtem, hist, last>>

dqvars == <<dq>>

fvars == <<F2C_matrix, fcall>>

NoData ==
    [n_local |-> 0, mu |-> 0, ml |-> 0, rel_uu |-> ZERO, nge |-> 0,
     rpwsize |-> 0, ipwsize |-> 0, f_data |-> "zero",
     PP |-> <<>>, pivots |-> <<>>, pivotsNull |-> FALSE]

NoLoc ==
    [uu |-> <<>>, uscale |-> <<>>, gu |-> <<>>, utemp |-> <<>>, group |-> 0,
     ngloc |-> 0, ngcomm |-> 0, groupsRun |-> 0, cbstat |-> 0, npert |-> <<>>,
     writes |-> <<>>, diff |-> {}]

NoLast ==
    [valid |-> FALSE, uu |-> <<>>, uscale |-> <<>>, J |-> <<>>, PP |-> <<>>,
     pivots |-> <<>>,
     ier |-> 0, flag |-> 0, ngloc |-> 0, ngcomm |-> 0, groupsRun |-> 0,
     repeated |-> FALSE]

NoHist == [ngloc |-> 0, nprecon |-> 0]

\* no column under examination
NoDq ==
    [pc |-> "none", rel_uu |-> ZERO, u |-> ZERO, uscale |-> ONE, inc |-> ZERO,
     utemp |-> ZERO, inc_inv |-> ZERO, zeroDiv |-> FALSE]

\* SUNMatrix F2C_CVODE_matrix; ... : file-scope objects start as NULL
NoMatrix == [kind |-> "NULL", serial |-> 0]

Solvers == {"CVODE", "IDA", "KINSOL", "ARKODE"}

NoHandles == [s \in Solvers |-> NoMatrix]

NoCall == [op |-> "none", code |-> 0, ier |-> 0, before |-> NoHandles, n |-> 0]

NoRet ==
    [op |-> "none", val |-> 0, cbstat |-> 0, arg |-> <<>>,
     kinmemNull |-> FALSE, nullReads |-> {}]

\* ------------------------------------------------------------------------
\* SUNNonlinearSolver return codes
\* ------------------------------------------------------------------------
SUN_NLS_SUCCESS == 0

SUN_NLS_MEM_NULL == -1

\* variant: a missing callback reported as success
IllInputAsSuccess == SUN_NLS_SUCCESS

SUN_NLS_ILL_INPUT == -2

SUN_NLS_MEM_FAIL == -1

SUN_NLS_SYS_RECVR == 1

\* variant: the fatal failure of SysFn reported with the recoverable code
SysFailAsRecvr == SUN_NLS_SYS_RECVR

SUN_NLS_SYS_FAIL == -8

SUN_NLS_LSETUP_RECVR == 2

SUN_NLS_LSETUP_FAIL == -6

SUN_NLS_LSOLVE_RECVR == 3

SUN_NLS_LSOLVE_FAIL == -7

\* variant: non-convergence reported with a fatal code
NConvAsFail == SUN_NLS_LSOLVE_FAIL

SUN_NLS_NCONV_RECVR == 4

SUN_NLS_VECTOROP_ERR == -28

NLS_CONTINUE == 6

\* a root-finding solver as its constructor leaves it: no callback attached
NlsNew ==
    [pc |-> "idle", sysfn |-> FALSE, lsetupfn |-> FALSE, lsolvefn |-> FALSE,
     ctestfn |-> FALSE, maxiters |-> MaxIters, callSetup |-> FALSE,
     mnewt |-> 0, niters |-> 0, ret |-> 0, nsolves |-> 0,
     nsys |-> 0, nlsetup |-> 0, nlsolve |-> 0, nctest |-> 0,
     fatal |-> FALSE, afterFatal |-> 0, failed |-> FALSE, converged |-> FALSE,
     zeroRes |-> FALSE, got |-> -1]

\* ------------------------------------------------------------------------
\* KBBDAlloc
\* ------------------------------------------------------------------------
\* variant: only dq_rel_uu = 0.0 asks for the default
RelUUNonZero(dq_rel_uu, uround) ==
    IF dq_rel_uu # ZERO THEN dq_rel_uu ELSE RSqrt(uround)

\* set rel_uu based on input value dq_rel_uu
RelUU(dq_rel_uu, uround) ==
    IF RLess(ZERO, dq_rel_uu) THEN dq_rel_uu ELSE RSqrt(uround)

RpwSize(Nlocal, mu, ml) == Nlocal * (2 * mu + ml + 1)

\* the test KBBDAlloc makes after BandAllocPiv
PivotAllocFailed(ppNull, pivNull) == ppNull

\* the allocations of KBBDAlloc in their order, okData, okPP, okPiv, okVt
\* saying which of them succeed: whether an instance is returned and the
\* blocks still held at the return
AllocOutcome(okData, okPP, okPiv, okVt) ==
    IF ~okData THEN [inst |-> FALSE, heap |-> {}]
    ELSE IF ~okPP THEN [inst |-> FALSE, heap |-> {}]
    ELSE IF PivotAllocFailed(~okPP, ~okPiv) THEN [inst |-> FALSE, heap |-> {}]
    ELSE IF ~okVt
         THEN [inst |-> FALSE,
               heap |-> {"PP"} \cup (IF okPiv THEN {"pivots"} ELSE {})]
         ELSE [inst |-> TRUE,
               heap |-> {"pdata", "PP", "vtemp3"}
                          \cup (IF okPiv THEN {"pivots"} ELSE {})]

NewData(Nlocal, mu, ml, dq_rel_uu, f_data, okPiv) ==
    [n_local |-> Nlocal, mu |-> mu, ml |-> ml,
     rel_uu |-> RelUU(dq_rel_uu, UROUND), nge |-> 0,
     rpwsize |-> RpwSize(Nlocal, mu, ml), ipwsize |-> Nlocal,
     f_data |-> f_data,
     PP |-> IndetMat(Nlocal), pivots |-> IndetPiv(Nlocal),
     pivotsNull |-> ~okPiv]

\* fprintf(errfp, MSG_KINMEM_NULL) with errfp standing for
\* kin_mem->kin_msgfp: the fields read through kin_mem when it is NULL
MessageReads(kinmemNull) == IF kinmemNull THEN {"kin_msgfp"} ELSE {}

\* kinmem is NULL: the message is printed to kin_mem->kin_msgfp, a read
\* through the NULL pointer, after which the build either stops or goes on
\* to return NULL.  Otherwise the NVECTOR test, then the allocations.
KBBDAlloc ==
    /\ pc = "uninit"
    /\ \E Nlocal \in 1 .. MaxN, mu \in BWInputs, ml \in BWInputs,
          dq_rel_uu \in DqRelInputs, f_data \in FDataInputs,
          kinmemNull \in BOOLEAN, nvecOK \in BOOLEAN,
          okData \in BOOLEAN, okPP \in BOOLEAN, okPiv \in BOOLEAN, okVt \in BOOLEAN :
          LET out == AllocOutcome(okData,
                                  okPP /\ BandAllocMatPossible(Nlocal, mu, ml),
                                  okPiv, okVt)
          IN  /\ IF kinmemNull
                 THEN /\ pc' \in {"crashed", "null"}
                      /\ UNCHANGED <<pdata, heap>>
                 ELSE IF ~nvecOK
                 THEN /\ pc' = "null"
                      /\ UNCHANGED <<pdata, heap>>
                 ELSE IF ~out.inst
                 THEN /\ pc' = "null"
                      /\ heap' = out.heap
                      /\ UNCHANGED pdata
                 ELSE /\ pc' = "idle"
                      /\ heap' = out.heap
                      /\ pdata' = NewData(Nlocal, mu, ml, dq_rel_uu, f_data, okPiv)
              /\ ret' = [op |-> "alloc", val |-> IF pc' = "idle" THEN 1 ELSE 0,
                         cbstat |-> 0, arg |-> dq_rel_uu,
                         kinmemNull |-> kinmemNull,
                         nullReads |-> MessageReads(kinmemNull)]
    /\ UNCHANGED <<loc, vtem, hist, last, nls, dqvars, fvars>>

\* ------------------------------------------------------------------------
\* KBBDFree
\* ------------------------------------------------------------------------
KBBDFree ==
    /\ pc = "idle"
    /\ heap' = heap \ {"PP", "pivots", "pdata"}
    /\ pc' = "freed"
    /\ ret' = [NoRet EXCEPT !.op = "free"]
    /\ pdata' = NoData
    /\ vtem' = <<>>
    /\ hist' = NoHist
    /\ last' = NoLast
    /\ UNCHANGED <<loc, nls, dqvars, fvars>>

\* ------------------------------------------------------------------------
\* KBBDDQJac: the difference quotient Jacobian
\* ------------------------------------------------------------------------
\* Set bandwidth and number of column groups for band differencing
Width(p) == p.ml + p.mu + 1

\* variant: the number of groups not limited by the local size
NGroupsNoMin(p) == Width(p)

NGroups(p) == MIN(Width(p), p.n_local)

\* variant: the loop over groups stops one group early
LoopContinuesStrict(p, group) == group < NGroups(p)

\* for (group=1; group <= ngroups; group++): the loop goes on with this group
LoopContinues(p, group) == group <= NGroups(p)

\* variant: j++ in place of j+=width
GroupColsEvery(p, group) == {j \in Idx(p.n_local) : j >= group - 1}

\* the columns j = group-1, group-1+width, ... < Nlocal of one group
GroupCols(p, group) ==
    {j \in Idx(p.n_local) : j >= group - 1 /\ (j - (group - 1)) % Width(p) = 0}

\* inc = rel_uu * MAX(ABS(udata[j]), ONE/uscdata[j])
Inc(p, uu, uscale, j) ==
    RMul(p.rel_uu, RMAX(RABS(uu[j]), RDiv(ONE, uscale[j])))

\* Increment all u_j in group
Perturbed(p, uu, uscale, utemp, group) ==
    [j \in Idx(p.n_local) |->
        IF j \in GroupCols(p, group)
        THEN RAdd(utemp[j], Inc(p, uu, uscale, j)) ELSE utemp[j]]

\* variant: utemp left incremented after the evaluation
RestoredNot(p, uu, utemp, group) == utemp

\* Restore utemp
Restored(p, uu, utemp, group) ==
    [j \in Idx(p.n_local) |-> IF j \in GroupCols(p, group) THEN uu[j] ELSE utemp[j]]

\* variant: the half-bandwidths taken the wrong way round
RowLoSwapped(p, j) == MAX(0, j - p.ml)

\* rows i1 .. i2 of column j that receive a difference quotient
RowLo(p, j) == MAX(0, j - p.mu)

\* variant: the last row not clipped to the matrix
RowHiNoClip(p, j) == j + p.ml

RowHi(p, j) == MIN(j + p.ml, p.n_local - 1)

\* the elements BAND_COL_ELEM(col_j,i,j) one group assigns
GroupWrites(p, group) ==
    UNION {{<<i, j>> : i \in RowLo(p, j) .. RowHi(p, j)} : j \in GroupCols(p, group)}

\* the log of element writes: how often each position was assigned
Logged(writes, new) ==
    [q \in (DOMAIN writes) \cup new |->
        (IF q \in DOMAIN writes THEN writes[q] ELSE 0)
            + (IF q \in new THEN 1 ELSE 0)]

\* the indices at which the work vector handed to gloc differs from uu
Differing(uu, utemp) == {j \in DOMAIN uu : utemp[j] # uu[j]}

\* form and load difference quotients of one group into J
LoadGroup(p, J, uu, uscale, gu, gtemp, group) ==
    [i \in Idx(p.n_local) |-> [j \in Idx(p.n_local) |->
        IF j \in GroupCols(p, group) /\ RowLo(p, j) <= i /\ i <= RowHi(p, j)
        THEN RMul(RDiv(ONE, Inc(p, uu, uscale, j)), RSub(gtemp[i], gu[i]))
        ELSE J[i][j]]]

\* the first failure status the callbacks of one rebuild reported
FirstStatus(old, status) == IF old # 0 THEN old ELSE status

\* ------------------------------------------------------------------------
\* KBBDPrecon, in the steps between its callbacks
\* ------------------------------------------------------------------------
\* variant: PP is cleared only while it is still untouched storage
ZeroedStale(p) == IF p.PP = IndetMat(p.n_local) THEN BandZero(p.n_local) ELSE p.PP

\* BandZero(PP)
Zeroed(p) == BandZero(p.n_local)

\* BandZero(PP); then KBBDDQJac loads utemp with uu
KBBDPreconBegin ==
    /\ pc = "idle"
    /\ hist.nprecon < MaxPrecon
    /\ \E in \in PreconInputs(pdata.n_local) :
          loc' = [NoLoc EXCEPT !.uu = in.uu, !.uscale = in.uscale, !.utemp = in.uu,
                               !.npert = [j \in Idx(pdata.n_local) |-> 0]]
    /\ pdata' = [pdata EXCEPT !.PP = Zeroed(pdata)]
    /\ pc' = "gcomm"
    /\ ret' = NoRet
    /\ vtem' = <<>>
    /\ UNCHANGED <<heap, hist, last, nls, dqvars, fvars>>

\* gcomm (Nlocal, udata, f_data); whatever it reports is not looked at
CallGComm ==
    /\ pc = "gcomm"
    /\ \E status \in CallbackStatus :
          loc' = [loc EXCEPT !.ngcomm = @ + 1, !.cbstat = FirstStatus(@, status)]
    /\ pc' = "gloc0"
    /\ UNCHANGED <<pdata, heap, ret, vtem, hist, last, nls, dqvars, fvars>>

\* gloc (Nlocal, uu, gu, f_data): base value of g(uu)
CallGLocBase ==
    /\ pc = "gloc0"
    /\ \E status \in CallbackStatus :
          loc' = [loc EXCEPT !.gu = Gloc(pdata.f_data, pdata.n_local, loc.uu),
                             !.ngloc = @ + 1,
                             !.cbstat = FirstStatus(@, status),
                             !.group = 1]
    /\ hist' = [hist EXCEPT !.ngloc = @ + 1]
    /\ pc' = IF LoopContinues(pdata, 1) THEN "group" ELSE "factor"
    /\ UNCHANGED <<pdata, heap, ret, vtem, last, nls, dqvars, fvars>>

\* one pass of the loop over groups: increment, gloc on utemp, restore, load
GroupStep ==
    /\ pc = "group"
    /\ \E status \in CallbackStatus :
          LET ut == Perturbed(pdata, loc.uu, loc.uscale, loc.utemp, loc.group)
              gtemp == Gloc(pdata.f_data, pdata.n_local, ut)
          IN  /\ pdata' = [pdata EXCEPT !.PP =
                              LoadGroup(pdata, pdata.PP, loc.uu, loc.uscale,
                                        loc.gu, gtemp, loc.group)]
              /\ loc' = [loc EXCEPT !.utemp = Restored(pdata, loc.uu, ut, loc.group),
                                    !.ngloc = @ + 1,
                                    !.groupsRun = @ + 1,
                                    !.diff = Differing(loc.uu, ut),
                                    !.writes =
                                        Logged(@, GroupWrites(pdata, loc.group)),
                                    !.npert = [j \in Idx(pdata.n_local) |->
                                        IF j \in GroupCols(pdata, loc.group)
                                        THEN @[j] + 1 ELSE @[j]],
                                    !.cbstat = FirstStatus(@, status),
                                    !.group = @ + 1]
    /\ hist' = [hist EXCEPT !.ngloc = @ + 1]
    /\ pc' = IF LoopContinues(pdata, loc.group + 1) THEN "group" ELSE "factor"
    /\ UNCHANGED <<heap, ret, vtem, last, nls, dqvars, fvars>>

\* variant: no storage reserved above the band for fill-in
StorageMuNoFill(p) == p.mu

\* the storage upper bandwidth smu of PP: BandAllocMat(Nlocal, mu, ml, mu+ml)
StorageMu(p) == p.mu + p.ml

\* nge += 1 + MIN(ml + mu + 1, Nlocal)
NgeIncrement(p) == 1 + MIN(p.ml + p.mu + 1, p.n_local)

\* variant: only a zero pivot in the first column is reported
PreconFlagFirstColumn(ier) == IF ier = 1 THEN 1 ELSE 0

\* variant: the column of the zero pivot is passed through
PreconFlagColumn(ier) == ier

\* Return 0 if the LU was complete; otherwise return 1
PreconFlag(ier) == IF ier > 0 THEN 1 ELSE 0

\* the counter update, BandFactor(PP, pivots) and the return; with the pivot
\* array missing BandFactor writes through the NULL pointer
KBBDPreconFinish ==
    /\ pc = "factor"
    /\ hist' = [hist EXCEPT !.nprecon = @ + 1]
    /\ IF pdata.pivotsNull
       THEN /\ pdata' = [pdata EXCEPT !.nge = @ + NgeIncrement(pdata)]
            /\ pc' = "crashed"
            /\ UNCHANGED <<ret, last, loc>>
       ELSE LET f == BandFactor(pdata.PP, pdata.pivots, pdata.n_local, pdata.ml,
                                StorageMu(pdata), 0)
            IN  /\ pdata' = [pdata EXCEPT !.nge = @ + NgeIncrement(pdata),
                                          !.PP = f.a, !.pivots = f.p]
                /\ ret' = [NoRet EXCEPT !.op = "precon",
                                        !.val = PreconFlag(f.ier),
                                        !.cbstat = loc.cbstat]
                /\ last' = [valid |-> TRUE, uu |-> loc.uu, uscale |-> loc.uscale,
                            J |-> pdata.PP, PP |-> f.a, pivots |-> f.p, ier |-> f.ier,
                            flag |-> PreconFlag(f.ier),
                            ngloc |-> loc.ngloc, ngcomm |-> loc.ngcomm,
                            groupsRun |-> loc.groupsRun,
                            repeated |-> last.valid /\ last.uu = loc.uu
                                           /\ last.uscale = loc.uscale]
                /\ loc' = NoLoc
                /\ pc' = "idle"
    /\ UNCHANGED <<heap, vtem, nls, dqvars, fvars>>

\* ------------------------------------------------------------------------
\* KBBDPSol
\* ------------------------------------------------------------------------
\* variant: KBBDPSol refuses to run without a successful KBBDPrecon
PSolFlagChecked == IF last.valid /\ last.flag = 0 THEN 0 ELSE -1

\* the value KBBDPSol returns
PSolFlag == 0

\* some entry of the pivot array was never written
PivotsIndet(p) == \E k \in Idx(p.n_local) : p.pivots[k] = -1

\* variant: the backsolve uses up the factors
FactorsConsumed(p) ==
    [p EXCEPT !.PP = IndetMat(p.n_local), !.pivots = IndetPiv(p.n_local)]

\* BandBacksolve(pdata->PP, pdata->pivots, vd) writes vd only; KBBDPSol
\* assigns no field of pdata
AfterBacksolve(p) == p

\* Do the backsolve and return.  Pivots that were never written index the
\* right-hand side anywhere: the build stops or goes on with garbage; a
\* missing pivot array is read through the NULL pointer.
KBBDPSol ==
    /\ pc = "idle"
    /\ \E r \in RhsInputs(pdata.n_local) :
          IF pdata.pivotsNull
          THEN /\ pc' = "crashed"
               /\ UNCHANGED <<vtem, ret>>
          ELSE /\ vtem' = BandBacksolve(pdata.PP, pdata.pivots, r, pdata.n_local,
                                        pdata.ml, StorageMu(pdata))
               /\ \/ /\ pc' = "idle"
                     /\ ret' = [NoRet EXCEPT !.op = "psol", !.val = PSolFlag,
                                             !.arg = r]
                  \/ /\ PivotsIndet(pdata)
                     /\ pc' = "crashed"
                     /\ UNCHANGED ret
    /\ pdata' = AfterBacksolve(pdata)
    /\ UNCHANGED <<heap, loc, hist, last, nls, dqvars, fvars>>

\* KBBDPSol entered while KBBDPrecon is under way on the same instance, from
\* one of its callbacks or from another thread.  KBBDPSol looks at no state of
\* the instance before the backsolve: it reads PP and the pivots as the
\* rebuild has left them so far and returns like any other apply.  What the
\* rebuild does after that is not followed, and its locals are dropped.
KBBDPSolDuringPrecon ==
    /\ pc \in {"gcomm", "gloc0", "group", "factor"}
    /\ ~pdata.pivotsNull
    /\ LET r == [j \in Idx(pdata.n_local) |-> ONE]
       IN  /\ vtem' = BandBacksolve(pdata.PP, pdata.pivots, r, pdata.n_local,
                                    pdata.ml, StorageMu(pdata))
           /\ ret' = [NoRet EXCEPT !.op = "psol", !.val = PSolFlag, !.arg = r]
    /\ pc' = "raced"
    /\ pdata' = AfterBacksolve(pdata)
    /\ loc' = NoLoc
    /\ UNCHANGED <<heap, hist, last, nls, dqvars, fvars>>

\* ------------------------------------------------------------------------
\* The preconditioner driver
\* ------------------------------------------------------------------------
Init ==
    /\ pc = "uninit"
    /\ pdata = NoData
    /\ heap = {}
    /\ loc = NoLoc
    /\ ret = NoRet
    /\ vtem = <<>>
    /\ hist = NoHist
    /\ last = NoLast
    /\ nls = NlsNew
    /\ dq = NoDq
    /\ F2C_matrix = NoHandles
    /\ fcall = NoCall

Next ==
    \/ KBBDAlloc
    \/ KBBDPreconBegin
    \/ CallGComm
    \/ CallGLocBase
    \/ GroupStep
    \/ KBBDPreconFinish
    \/ KBBDPSol
    \/ KBBDPSolDuringPrecon
    \/ KBBDFree

Spec == Init /\ [][Next]_vars

\* ------------------------------------------------------------------------
\* The generic nonlinear solver, root-finding (Newton) variant
\* ------------------------------------------------------------------------
\* SUNNonlinSolSetSysFn, SetLSetupFn, SetLSolveFn, SetConvTestFn
SUNNonlinSolSetSysFn ==
    /\ nls.pc \in {"idle", "done"} /\ ~nls.sysfn
    /\ nls' = [nls EXCEPT !.sysfn = TRUE, !.pc = "idle"]
    /\ UNCHANGED <<bbdvars, dqvars, fvars>>

SUNNonlinSolSetLSetupFn ==
    /\ nls.pc \in {"idle", "done"} /\ ~nls.lsetupfn
    /\ nls' = [nls EXCEPT !.lsetupfn = TRUE, !.pc = "idle"]
    /\ UNCHANGED <<bbdvars, dqvars, fvars>>

SUNNonlinSolSetLSolveFn ==
    /\ nls.pc \in {"idle", "done"} /\ ~nls.lsolvefn
    /\ nls' = [nls EXCEPT !.lsolvefn = TRUE, !.pc = "idle"]
    /\ UNCHANGED <<bbdvars, dqvars, fvars>>

SUNNonlinSolSetConvTestFn ==
    /\ nls.pc \in {"idle", "done"} /\ ~nls.ctestfn
    /\ nls' = [nls EXCEPT !.ctestfn = TRUE, !.pc = "idle"]
    /\ UNCHANGED <<bbdvars, dqvars, fvars>>

\* SUNNonlinSolSetMaxIters: a count below 1 is illegal input
SUNNonlinSolSetMaxIters ==
    /\ nls.pc \in {"idle", "done"}
    /\ \E maxiters \in 0 .. MaxIters :
          nls' = IF maxiters < 1 THEN [nls EXCEPT !.pc = "idle"]
                 ELSE [nls EXCEPT !.maxiters = maxiters, !.pc = "idle"]
    /\ UNCHANGED <<bbdvars, dqvars, fvars>>

\* the status solve returns for a failure a callback reported
SysStatus(s) == IF s < 0 THEN SUN_NLS_SYS_FAIL ELSE SUN_NLS_SYS_RECVR

LSetupStatus(s) == IF s < 0 THEN SUN_NLS_LSETUP_FAIL ELSE SUN_NLS_LSETUP_RECVR

LSolveStatus(s) == IF s < 0 THEN SUN_NLS_LSOLVE_FAIL ELSE SUN_NLS_LSOLVE_RECVR

\* a callback is being invoked: history of the calls of this solve
Invoked(n, s) ==
    [n EXCEPT !.afterFatal = IF n.fatal THEN @ + 1 ELSE @,
              !.fatal = @ \/ s < 0,
              !.failed = @ \/ (s # 0 /\ s # NLS_CONTINUE)]

Return(n, status) == [n EXCEPT !.pc = "done", !.ret = status]

\* the required callbacks of a root-finding solver are attached
CallbacksSet(n) == n.sysfn /\ n.lsolvefn /\ n.ctestfn

\* variant: the iteration count carried over from the solve before
StartItersKept(n) == n.niters

\* the iteration count a solve starts from
StartIters(n) == 0

\* SUNNonlinSolSolve(NLS, y0, y, w, tol, callSetup, mem): entry.  zeroRes:
\* the problem handed over is one whose residual is zero at y0, so that the
\* first correction is zero and the convergence test accepts it
SUNNonlinSolSolve ==
    /\ nls.pc \in {"idle", "done"}
    /\ nls.nsolves < MaxSolves
    /\ \E callSetup \in BOOLEAN, zeroRes \in BOOLEAN :
          LET n == [nls EXCEPT !.callSetup = callSetup, !.mnewt = 0,
                               !.niters = StartIters(nls),
                               !.zeroRes = zeroRes, !.got = -1,
                               !.nsolves = @ + 1, !.nsys = 0, !.nlsetup = 0,
                               !.nlsolve = 0, !.nctest = 0, !.fatal = FALSE,
                               !.afterFatal = 0, !.failed = FALSE,
                               !.converged = FALSE, !.ret = 0]
          IN  nls' = IF CallbacksSet(nls) /\ (~callSetup \/ nls.lsetupfn)
                     THEN [n EXCEPT !.pc = "sys"]
                     ELSE Return(n, SUN_NLS_ILL_INPUT)
    /\ UNCHANGED <<bbdvars, dqvars, fvars>>

\* variant: the linear setup run in every iteration, asked for or not
NeedsSetupAlways(n) == TRUE

\* the linear setup is run when the caller asked for it, before the first
\* linear solve
NeedsSetup(n) == n.callSetup /\ n.mnewt = 0

\* SysFn(y, F, mem): the residual; then the linear setup if it was asked for
CallSysFn ==
    /\ nls.pc = "sys"
    /\ \E s \in (IF nls.zeroRes THEN {0} ELSE CallbackStatus) :
          LET n == [Invoked(nls, s) EXCEPT !.nsys = @ + 1]
          IN  nls' = IF s # 0 THEN Return(n, SysStatus(s))
                     ELSE IF NeedsSetup(n)
                          THEN [n EXCEPT !.pc = "lsetup"]
                          ELSE [n EXCEPT !.pc = "lsolve"]
    /\ UNCHANGED <<bbdvars, dqvars, fvars>>

\* LSetupFn(y, F, mem)
CallLSetupFn ==
    /\ nls.pc = "lsetup"
    /\ \E s \in CallbackStatus :
          LET n == [Invoked(nls, s) EXCEPT !.nlsetup = @ + 1]
          IN  nls' = IF s # 0 THEN Return(n, LSetupStatus(s))
                     ELSE [n EXCEPT !.pc = "lsolve"]
    /\ UNCHANGED <<bbdvars, dqvars, fvars>>

\* LSolveFn(y, b, mem); the correction is applied and the iteration counted
CallLSolveFn ==
    /\ nls.pc = "lsolve"
    /\ \E s \in CallbackStatus :
          LET n == [Invoked(nls, s) EXCEPT !.nlsolve = @ + 1]
          IN  nls' = IF s # 0 THEN Return(n, LSolveStatus(s))
                     ELSE [n EXCEPT !.pc = "ctest", !.niters = @ + 1]
    /\ UNCHANGED <<bbdvars, dqvars, fvars>>

\* ConvTestFn(m, delnrm, tol, mem): converged, continue, or a failure of its own
CallConvTestFn ==
    /\ nls.pc = "ctest"
    /\ \E s \in (IF nls.zeroRes THEN {SUN_NLS_SUCCESS}
                 ELSE CallbackStatus \cup {NLS_CONTINUE}) :
          LET n == [Invoked(nls, s) EXCEPT !.nctest = @ + 1, !.mnewt = @ + 1]
          IN  nls' = IF s = SUN_NLS_SUCCESS
                     THEN [Return(n, SUN_NLS_SUCCESS) EXCEPT !.converged = TRUE]
                     ELSE IF s # NLS_CONTINUE THEN Return(n, s)
                     ELSE IF n.mnewt >= n.maxiters
                          THEN Return(n, SUN_NLS_NCONV_RECVR)
                          ELSE [n EXCEPT !.pc = "sys"]
    /\ UNCHANGED <<bbdvars, dqvars, fvars>>

\* the value SUNNonlinSolGetNumIters hands back: the iterations of the last
\* solve
NumIters(n) == n.niters

\* SUNNonlinSolGetNumIters(NLS, &niters): read-only
SUNNonlinSolGetNumIters ==
    /\ nls.pc \in {"idle", "done"}
    /\ nls' = [nls EXCEPT !.got = NumIters(nls)]
    /\ UNCHANGED <<bbdvars, dqvars, fvars>>

SolveStep == CallSysFn \/ CallLSetupFn \/ CallLSolveFn \/ CallConvTestFn

NextNLS ==
    \/ SUNNonlinSolSetSysFn
    \/ SUNNonlinSolSetLSetupFn
    \/ SUNNonlinSolSetLSolveFn
    \/ SUNNonlinSolSetConvTestFn
    \/ SUNNonlinSolSetMaxIters
    \/ SUNNonlinSolSolve
    \/ SUNNonlinSolGetNumIters
    \/ CallSysFn
    \/ CallLSetupFn
    \/ CallLSolveFn
    \/ CallConvTestFn

\* a callback that is invoked returns: the steps of a running solve are fair
SpecNLS == Init /\ [][NextNLS]_vars /\ WF_vars(SolveStep)

\* ------------------------------------------------------------------------
\* Properties of the preconditioner driver
\* ------------------------------------------------------------------------
\* the most recent KBBDPrecon returned success
LastPreconSucceeded == last.valid /\ last.flag = 0

FactorizationCompleted == \A k \in Idx(pdata.n_local) : last.PP[k][k] # ZERO

\* C2: KBBDPrecon returns 0 exactly when the band LU factorization completed
\* and a strictly positive value exactly when it met a zero pivot; a singular
\* matrix never gives a negative value and never 0.
C2_PreconReturnSign ==
    ret.op = "precon" =>
        /\ ret.val >= 0
        /\ (ret.val = 0) <=> FactorizationCompleted
        /\ (ret.val > 0) <=> ~FactorizationCompleted

\* a KBBDPrecon whose factorization met a zero pivot after the first column
C2_Witness ==
    /\ ret.op = "precon" /\ ret.val > 0
    /\ pdata.PP[0][0] # ZERO
    /\ ~FactorizationCompleted

\* C3: every instance KBBDAlloc returns has nonnegative half-bandwidths (a
\* negative mu or ml yields no instance); the difference-quotient
\* half-bandwidths of KBBDDQJac are mu and ml themselves.
C3_BandwidthsValidated ==
    (ret.op = "alloc" /\ ret.val = 1) => (0 <= pdata.mu /\ 0 <= pdata.ml)

\* the half-bandwidths are legal for the local size
LegalBand == 0 <= pdata.mu /\ pdata.mu < pdata.n_local
                 /\ 0 <= pdata.ml /\ pdata.ml < pdata.n_local

\* min(mu + ml + 1, N), written out
ClaimedGroups ==
    IF pdata.mu + pdata.ml + 1 < pdata.n_local
    THEN pdata.mu + pdata.ml + 1 ELSE pdata.n_local

C7_PreconDeterministic ==
    [][(pc = "factor" /\ pc' = "idle" /\ last.valid
           /\ last.uu = loc.uu /\ last.uscale = loc.uscale)
       => (pdata'.PP = last.PP /\ pdata'.pivots = last.pivots
              /\ ret'.val = last.flag)]_vars

\* the factorization left fill-in above the retained band
FillInPresent ==
    \E i \in Idx(pdata.n_local) : \E j \in Idx(pdata.n_local) :
        i < j - pdata.mu /\ pdata.PP[i][j] # ZERO

\* a second KBBDPrecon with the inputs of the first has returned, on a matrix
\* whose factorization creates fill-in
C7_Witness ==
    pc = "idle" /\ ret.op = "precon" /\ last.repeated /\ FillInPresent

\* C8 as claimed: when the factorization fails at a zero pivot in column k
\* (from 0), KBBDPrecon reports the 1-based column k+1 to its caller.
C8_ReportsColumn ==
    (ret.op = "precon" /\ last.ier > 0) => ret.val = last.ier

\* C8 amended: when the factorization fails at a zero pivot, KBBDPrecon
\* reports 1 whatever the column; the column BandFactor names is dropped.
C8_ReportsOne ==
    (ret.op = "precon" /\ last.ier > 0) => ret.val = 1

\* a zero pivot in a column after the first, reported as 1
C8_Witness ==
    ret.op = "precon" /\ last.ier >= 2 /\ ret.val = 1

\* C9: between calls, nge equals the number of gloc calls made for the
\* instance since KBBDAlloc.
C9_NgeCountsGloc ==
    pc = "idle" => pdata.nge = hist.ngloc

\* the same for the instances whose width ml + mu + 1 is not negative
NgeCountsGlocNonNegWidth ==
    (pc = "idle" /\ Width(pdata) >= 0) => pdata.nge = hist.ngloc

\* C10: a KBBDPrecon during which gcomm or gloc reported a failure returns
\* that failure's code, and so never 0.
C10_CallbackFailureReported ==
    (ret.op = "precon" /\ ret.cbstat # 0) => ret.val = ret.cbstat

\* ------------------------------------------------------------------------
\* Properties of the nonlinear solver
\* ------------------------------------------------------------------------
Solving == nls.pc \in {"sys", "lsetup", "lsolve", "ctest"}

\* a solve ran to its return without convergence and without a failure
NeverConverged ==
    nls.pc = "done" /\ nls.nsys > 0 /\ ~nls.converged /\ ~nls.failed

\* C4: a solve whose convergence test never reports convergence and whose
\* callbacks never fail returns after exactly maxiters iterations with
\* SUN_NLS_NCONV_RECVR, a positive status; no solve makes more than maxiters
\* iterations, and every solve returns.
C4_NonConvergence ==
    /\ [](NeverConverged =>
             /\ nls.niters = nls.maxiters
             /\ nls.nctest = nls.maxiters
             /\ nls.ret = SUN_NLS_NCONV_RECVR
             /\ nls.ret > 0)
    /\ []((Solving \/ nls.pc = "done") => nls.niters <= nls.maxiters)
    /\ (Solving ~> nls.pc = "done")

\* a solve of several iterations that ended in non-convergence
C4_Witness ==
    NeverConverged /\ nls.maxiters >= 2 /\ nls.niters = nls.maxiters

\* C5: once a callback has returned a negative status, solve has returned a
\* negative status and has invoked no callback after it.
C5_FatalPropagated ==
    nls.fatal => (~Solving /\ nls.ret < 0 /\ nls.afterFatal = 0)

\* a fatal status of SysFn in a later iteration ended the solve
C5_Witness ==
    /\ nls.fatal /\ nls.pc = "done"
    /\ nls.niters >= 1 /\ nls.ret = SUN_NLS_SYS_FAIL

\* ------------------------------------------------------------------------
\* Properties of KBBDAlloc and KBBDFree
\* ------------------------------------------------------------------------
\* C11: a KBBDAlloc in which an allocation failed returns NULL holding none
\* of the blocks it had obtained, and an instance KBBDAlloc returns has its
\* band matrix, its pivot array and its work vector.
C11_AllocFailureCleansUp ==
    ret.op = "alloc" =>
        /\ (ret.val = 0 => heap = {})
        /\ (ret.val = 1 => (~pdata.pivotsNull
                               /\ {"PP", "pivots", "vtemp3"} \subseteq heap))

\* C12: after KBBDFree none of the blocks KBBDAlloc obtained for the
\* instance - band matrix, pivot array, vtemp3, data record - is still held.
C12_FreeReleasesAll ==
    pc = "freed" => heap = {}

\* the instance exists before and after the step
InstanceKept == pc \notin {"uninit", "null", "freed"} /\ pc' # "freed"

\* C13: the rel_uu KBBDAlloc stores is strictly positive, equal to dq_rel_uu
\* when that is positive and to the square root of the unit roundoff
\* otherwise; no later step of KBBDPrecon or KBBDPSol changes it.
C13_RelUUResolvedOnce ==
    [][/\ (pc = "uninit" /\ pc' = "idle") =>
              /\ RLess(ZERO, pdata'.rel_uu)
              /\ RLess(ZERO, ret'.arg) => pdata'.rel_uu = ret'.arg
              /\ ~RLess(ZERO, ret'.arg) =>
                     RMul(pdata'.rel_uu, pdata'.rel_uu) = UROUND
       /\ InstanceKept => pdata'.rel_uu = pdata.rel_uu]_vars

\* an instance that got the default increment, after a KBBDPrecon and a
\* KBBDPSol
C13_Witness ==
    /\ pc = "idle" /\ ret.op = "psol" /\ last.valid
    /\ RLess(ZERO, pdata.rel_uu)
    /\ RMul(pdata.rel_uu, pdata.rel_uu) = UROUND

\* no callback was invoked and no iteration made in the solve
NothingInvoked ==
    /\ nls.nsys = 0 /\ nls.nlsetup = 0 /\ nls.nlsolve = 0 /\ nls.nctest = 0
    /\ nls.niters = 0

\* C14: a solve called while SysFn, LSolveFn or ConvTestFn is not set returns
\* SUN_NLS_ILL_INPUT, a negative status, having invoked no callback and made
\* no iteration; a solve never runs with one of them missing.
C14_MissingCallbackIllInput ==
    /\ (nls.pc = "done" /\ ~CallbacksSet(nls)) =>
           (nls.ret = SUN_NLS_ILL_INPUT /\ nls.ret < 0 /\ NothingInvoked)
    /\ Solving => CallbacksSet(nls)

\* solve returned with SysFn and ConvTestFn set and only LSolveFn missing
C14_Witness ==
    /\ nls.pc = "done" /\ nls.sysfn /\ nls.ctestfn /\ ~nls.lsolvefn
    /\ nls.ret = SUN_NLS_ILL_INPUT

\* a solve on a zero residual has returned and none of its callbacks failed
ZeroResidualSolved ==
    ~Solving /\ nls.nsys > 0 /\ nls.zeroRes /\ ~nls.failed

\* C15: a solve whose SysFn returns the zero residual from iteration 0 on
\* converges with exactly one call of ConvTestFn and returns success, and
\* SUNNonlinSolGetNumIters afterwards hands back 1, on every such solve.
C15_ZeroResidualOneTest ==
    ZeroResidualSolved =>
        /\ nls.converged /\ nls.nctest = 1 /\ nls.ret = 0
        /\ nls.niters = 1
        /\ nls.got # -1 => nls.got = 1

\* the second solve of a solver, on a zero residual, after which the count
\* was read
C15_Witness ==
    ZeroResidualSolved /\ nls.nsolves = 2 /\ nls.got = 1 /\ nls.converged

\* the conditions the status codes of sundials_nonlinearsolver.h stand for
Recoverable == {"sys_recvr", "lsetup_recvr", "lsolve_recvr", "nconv_recvr"}

Fatal ==
    {"mem_null", "ill_input", "mem_fail", "sys_fail", "lsetup_fail",
     "lsolve_fail", "vectorop_err"}

Conditions == {"success"} \cup Recoverable \cup Fatal

\* the code of each condition
StatusCode(c) ==
    CASE c = "success"      -> SUN_NLS_SUCCESS
      [] c = "mem_null"     -> SUN_NLS_MEM_NULL
      [] c = "ill_input"    -> SUN_NLS_ILL_INPUT
      [] c = "mem_fail"     -> SUN_NLS_MEM_FAIL
      [] c = "sys_recvr"    -> SUN_NLS_SYS_RECVR
      [] c = "sys_fail"     -> SUN_NLS_SYS_FAIL
      [] c = "lsetup_recvr" -> SUN_NLS_LSETUP_RECVR
      [] c = "lsetup_fail"  -> SUN_NLS_LSETUP_FAIL
      [] c = "lsolve_recvr" -> SUN_NLS_LSOLVE_RECVR
      [] c = "lsolve_fail"  -> SUN_NLS_LSOLVE_FAIL
      [] c = "nconv_recvr"  -> SUN_NLS_NCONV_RECVR
      [] OTHER              -> SUN_NLS_VECTOROP_ERR

\* the signs of the table: 0 for success only, positive for the recoverable
\* conditions, negative for the fatal ones
StatusSigns ==
    /\ \A c \in Conditions : (StatusCode(c) = 0) <=> (c = "success")
    /\ \A c \in Recoverable : StatusCode(c) > 0
    /\ \A c \in Fatal : StatusCode(c) < 0

\* the status a solve returned has the sign of what happened in the solve
ReturnedSign ==
    nls.pc = "done" =>
        /\ (nls.ret = 0) <=> nls.converged
        /\ nls.fatal => nls.ret < 0
        /\ (~nls.converged /\ ~nls.fatal) => (nls.ret > 0 \/ NothingInvoked)

\* C16: every status code follows one sign convention - 0 for success only,
\* positive for every recoverable condition, negative for every fatal one -
\* and no two different conditions have the same code.
C16_StatusCodesDistinct ==
    /\ ReturnedSign
    /\ StatusSigns
    /\ \A c \in Conditions : \A d \in Conditions :
           c # d => StatusCode(c) # StatusCode(d)

\* the sign convention holds, and so does distinctness for every pair of
\* conditions other than mem_null and mem_fail
StatusCodesDistinctButMem ==
    /\ ReturnedSign
    /\ StatusSigns
    /\ \A c \in Conditions : \A d \in Conditions :
           (c # d /\ {c, d} # {"mem_null", "mem_fail"})
               => StatusCode(c) # StatusCode(d)

\* ------------------------------------------------------------------------
\* Properties of the difference quotient matrix and of the solve
\* ------------------------------------------------------------------------
\* the product of the N x N matrix a and the vector x
MatVec(a, x) ==
    [i \in DOMAIN x |-> RSum([j \in DOMAIN x |-> RMul(a[i][j], x[j])], DOMAIN x)]

\* C17: after a successful KBBDPrecon, KBBDPSol on the right-hand side r
\* leaves in vtem the z with P z = r, P being the band matrix KBBDDQJac
\* stored before it was factored (the instance idle, no KBBDPrecon under
\* way).
C17_SolveInvertsP ==
    (pc = "idle" /\ ret.op = "psol" /\ LastPreconSucceeded) =>
        MatVec(last.J, vtem) = ret.arg

\* a solve with a 3 x 3 matrix whose factorization interchanged rows and
\* made fill-in
C17_Witness ==
    /\ pc = "idle" /\ ret.op = "psol" /\ LastPreconSucceeded
    /\ pdata.n_local = 3
    /\ \E k \in Idx(3) : pdata.pivots[k] # k
    /\ FillInPresent
    /\ MatVec(last.J, vtem) = ret.arg

\* the same with the constant-coefficient tridiagonal matrix
TridiagonalSolved ==
    /\ pc = "idle" /\ ret.op = "psol" /\ LastPreconSucceeded
    /\ pdata.n_local = 3 /\ pdata.mu = 1 /\ pdata.ml = 1
    /\ pdata.f_data = "tridiag"
    /\ MatVec(last.J, vtem) = ret.arg

\* inside KBBDPrecon
InRebuild == pc \in {"gcomm", "gloc0", "group", "factor"}

\* the number of groups of a rebuild, written out
ExpectedGroups ==
    IF pdata.ml + pdata.mu + 1 < 0 THEN 0
    ELSE IF pdata.ml + pdata.mu + 1 < pdata.n_local
         THEN pdata.ml + pdata.mu + 1 ELSE pdata.n_local

\* C18: a rebuild zeroes the band matrix, then calls gcomm exactly once, then
\* gloc on the unperturbed uu with no callback in between, then gloc once per
\* group, and factors exactly once, only after the columns of every group
\* were written; gcomm is not called between or after the perturbed
\* evaluations.
C18_RebuildOrder ==
    /\ [](pc = "gcomm" =>
             /\ pdata.PP = BandZero(pdata.n_local)
             /\ loc.ngcomm = 0 /\ loc.ngloc = 0 /\ loc.groupsRun = 0)
    /\ [](pc = "gloc0" =>
             /\ pdata.PP = BandZero(pdata.n_local)
             /\ loc.ngcomm = 1 /\ loc.ngloc = 0 /\ loc.groupsRun = 0)
    /\ [](pc = "group" =>
             /\ loc.ngcomm = 1 /\ loc.ngloc = 1 + loc.groupsRun
             /\ loc.group = loc.groupsRun + 1
             /\ loc.groupsRun < ExpectedGroups)
    /\ [](pc = "factor" =>
             /\ loc.ngcomm = 1 /\ loc.ngloc = 1 + loc.groupsRun
             /\ loc.groupsRun = ExpectedGroups)
    /\ [](ret.op = "precon" =>
             /\ last.ngcomm = 1 /\ last.ngloc = 1 + last.groupsRun
             /\ last.groupsRun = ExpectedGroups)
    /\ [][(InRebuild /\ pdata'.pivots # pdata.pivots)
             => (pc = "factor" /\ pc' = "idle")]_vars

\* the second rebuild of an instance, with several groups, has returned
C18_Witness ==
    /\ ret.op = "precon" /\ hist.nprecon = 2
    /\ last.groupsRun >= 2 /\ last.ngcomm = 1

\* the groups unknown j belongs to
GroupsOf(j) == {g \in 1 .. NGroups(pdata) : j \in GroupCols(pdata, g)}

\* the output rows [j-mu, j+ml] of two unknowns have no row in common
RangesDisjoint(j, k) ==
    ~\E i \in (j - pdata.mu) .. (j + pdata.ml) :
        k - pdata.mu <= i /\ i <= k + pdata.ml

\* every unknown is in exactly one group, and once the groups are done it
\* was perturbed in exactly one evaluation; unknowns perturbed together have
\* disjoint output rows
Partitioned ==
    /\ (pc \in {"idle", "factor"}) =>
           \A j \in Idx(pdata.n_local) : Cardinality(GroupsOf(j)) = 1
    /\ pc = "factor" => \A j \in Idx(pdata.n_local) : loc.npert[j] = 1
    /\ pc = "group" =>
           \A j \in GroupCols(pdata, loc.group) :
               \A k \in GroupCols(pdata, loc.group) :
                   j # k => RangesDisjoint(j, k)

\* C19: the grouping is a partition by index modulo width: every unknown is
\* in exactly one group and is perturbed in exactly one perturbed evaluation
\* of a rebuild, and two unknowns of one group have disjoint output-row
\* ranges [j-mu, j+ml].
C19_GroupingPartition == Partitioned

\* the same for the instances whose width ml + mu + 1 is at least 1
PartitionedPositiveWidth == (Width(pdata) >= 1) => Partitioned

\* a group of two unknowns is being perturbed
TwoInOneGroup ==
    pc = "group" /\ Cardinality(GroupCols(pdata, loc.group)) >= 2

\* position (i, j) is inside the band: j - mu <= i <= j + ml
InBand(i, j) == j - pdata.mu <= i /\ i <= j + pdata.ml

\* the Jacobian A of the local function has no nonzero outside the band
JacInBand ==
    \A i \in Idx(pdata.n_local) : \A j \in Idx(pdata.n_local) :
        InBand(i, j) \/ LocalJac(pdata.f_data, i, j) = 0

\* the matrix equals A at every position inside the band
EqualsJacInBand(J) ==
    \A i \in Idx(pdata.n_local) : \A j \in Idx(pdata.n_local) :
        InBand(i, j) => J[i][j] = RInt(LocalJac(pdata.f_data, i, j))

\* C20: for an affine local function whose Jacobian A has all its nonzeros
\* inside the band, the matrix KBBDDQJac stores equals A at every in-band
\* position, whatever N, mu, ml, uu and uscale: the grouped perturbations
\* give the entries single perturbations would.
C20_AffineJacobianRecovered ==
    /\ (pc = "factor" /\ JacInBand) => EqualsJacInBand(pdata.PP)
    /\ (ret.op = "precon" /\ JacInBand) => EqualsJacInBand(last.J)

\* a rebuild that perturbed two unknowns in one evaluation, for a Jacobian
\* with an off-diagonal entry, at a uu with a zero component
C20_Witness ==
    /\ pc = "factor" /\ JacInBand
    /\ Width(pdata) < pdata.n_local
    /\ \E i \in Idx(pdata.n_local) : \E j \in Idx(pdata.n_local) :
           i # j /\ pdata.PP[i][j] # ZERO
    /\ \E j \in Idx(pdata.n_local) : loc.uu[j] = ZERO
    /\ EqualsJacInBand(pdata.PP)

\* ------------------------------------------------------------------------
\* Properties of the element accesses of KBBDDQJac
\* ------------------------------------------------------------------------
\* the positions (i, j) with 0 <= j < N and max(0, j-mu) <= i <= min(j+ml, N-1)
ClippedBand ==
    {q \in Idx(pdata.n_local) \X Idx(pdata.n_local) :
        q[2] - pdata.mu <= q[1] /\ q[1] <= q[2] + pdata.ml}

\* C21: one rebuild writes matrix position (i, j) if and only if 0 <= j < N
\* and max(0, j-mu) <= i <= min(j+ml, N-1), each such position exactly once;
\* at no time was a position outside that set written.
C21_WritesExactlyBand ==
    /\ InRebuild =>
           /\ DOMAIN loc.writes \subseteq ClippedBand
           /\ \A q \in DOMAIN loc.writes : loc.writes[q] = 1
    /\ pc = "factor" => DOMAIN loc.writes = ClippedBand

\* a finished rebuild with mu # ml whose band is clipped at both ends
C21_Witness ==
    /\ pc = "factor" /\ pdata.mu = 2 /\ pdata.ml = 1 /\ pdata.n_local = 3
    /\ Cardinality(DOMAIN loc.writes) = 8
    /\ DOMAIN loc.writes = ClippedBand

\* C22 as claimed: every element (row, col) KBBDDQJac accesses satisfies
\* col - ml <= row <= col + mu (lower half-bandwidth below the column index,
\* upper above), for all N, mu and ml.
C22_AccessWithinSwappedBand ==
    InRebuild =>
        \A q \in DOMAIN loc.writes :
            q[2] - pdata.ml <= q[1] /\ q[1] <= q[2] + pdata.mu

\* C22 amended: every element (row, col) KBBDDQJac accesses satisfies
\* col - mu <= row <= col + ml and 0 <= row <= N-1, the rows of column col
\* the band store holds, for all N, mu and ml.
C22_AccessWithinBand ==
    InRebuild =>
        \A q \in DOMAIN loc.writes :
            /\ q[2] - pdata.mu <= q[1] /\ q[1] <= q[2] + pdata.ml
            /\ 0 <= q[1] /\ q[1] <= pdata.n_local - 1

\* a rebuild with mu # ml that assigned an element mu above the diagonal,
\* further from it than ml
C22_Witness ==
    /\ InRebuild /\ pdata.mu > pdata.ml /\ pdata.ml >= 0
    /\ \E q \in DOMAIN loc.writes : q[1] = q[2] - pdata.mu

\* C23: a rebuild never modifies uu; the work vector handed to gloc for a
\* group differs from uu exactly at the indices of that group, and when
\* KBBDDQJac has run its last group the work vector equals uu again.
C23_WorkVectorPerturbedAndRestored ==
    [][/\ (InRebuild /\ InRebuild') => loc'.uu = loc.uu
       /\ GroupStep =>
              /\ loc'.diff = GroupCols(pdata, loc.group)
              /\ loc'.utemp = loc'.uu
       /\ pc' = "factor" => loc'.utemp = loc'.uu]_vars

\* the first group of a rebuild evaluated with u_0 and u_2 incremented and
\* the work vector back at uu before the second group
C23_Witness ==
    /\ pc = "group" /\ loc.group = 2 /\ loc.groupsRun = 1
    /\ loc.diff = {0, 2} /\ loc.diff = GroupCols(pdata, 1)
    /\ loc.utemp = loc.uu

\* ------------------------------------------------------------------------
\* The increment of KBBDDQJac for one column, over all values of u_j and
\* scale_j, a zero scale included
\* ------------------------------------------------------------------------
RelInputs == {RelUU(d, UROUND) : d \in DqRelInputs}

UInputs == {RInt(k) : k \in (-MaxU) .. MaxU}

ScaleInputs == {RInt(k) : k \in 0 .. MaxScale} \cup {<<1, 2>>}

\* the vectors of a one-component problem
One(x) == [k \in {0} |-> x]

\* ONE/uscdata[j] with uscdata[j] zero, ONE/inc with inc zero
DividesByZero(x) == x = ZERO

\* inc = rel_uu * MAX(ABS(udata[j]), ONE/uscdata[j]) for one column
IncOf(rel_uu, u, uscale) == Inc([rel_uu |-> rel_uu], One(u), One(uscale), 0)

\* a floating-point division by zero either traps or goes on with the
\* infinite quotient
AfterDivision(zero, next) == IF zero THEN {"trapped", next} ELSE {next}

\* inc = rel_uu * MAX(ABS(udata[j]), ONE/uscdata[j]); utempdata[j] += inc
DQIncrement ==
    /\ dq.pc = "inc"
    /\ \E to \in AfterDivision(DividesByZero(dq.uscale), "quot") :
          dq' = [dq EXCEPT !.pc = to,
                           !.zeroDiv = DividesByZero(dq.uscale),
                           !.inc = IncOf(dq.rel_uu, dq.u, dq.uscale),
                           !.utemp = RAdd(@, IncOf(dq.rel_uu, dq.u, dq.uscale))]
    /\ UNCHANGED <<bbdvars, nls, fvars>>

\* utempdata[j] = udata[j]; inc as before; inc_inv = ONE/inc
DQQuotient ==
    /\ dq.pc = "quot"
    /\ LET inc == IncOf(dq.rel_uu, dq.u, dq.uscale)
       IN  \E to \in AfterDivision(DividesByZero(dq.uscale) \/ DividesByZero(inc),
                                   "done") :
              dq' = [dq EXCEPT !.pc = to,
                               !.zeroDiv = DividesByZero(dq.uscale)
                                              \/ DividesByZero(inc),
                               !.utemp = dq.u,
                               !.inc = inc,
                               !.inc_inv = RDiv(ONE, inc)]
    /\ UNCHANGED <<bbdvars, nls, fvars>>

InitInc ==
    /\ pc = "uninit"
    /\ pdata = NoData
    /\ heap = {}
    /\ loc = NoLoc
    /\ ret = NoRet
    /\ vtem = <<>>
    /\ hist = NoHist
    /\ last = NoLast
    /\ nls = NlsNew
    /\ F2C_matrix = NoHandles
    /\ fcall = NoCall
    /\ dq \in {[NoDq EXCEPT !.pc = "inc", !.rel_uu = r, !.u = u, !.uscale = sc,
                           !.utemp = u] :
                  r \in RelInputs, u \in UInputs, sc \in ScaleInputs}

NextInc ==
    \/ DQIncrement
    \/ DQQuotient

SpecInc == InitInc /\ [][NextInc]_vars

\* C24: the builder never divides by a zero scale component: with scale_j
\* zero the increment is rel_uu * |u_j|, and rel_uu when u_j is zero too; the
\* increment is never zero and no division by zero occurs.
C24_NoDivisionByZeroScale ==
    dq.pc \in {"quot", "done", "trapped"} =>
        /\ ~dq.zeroDiv
        /\ dq.inc # ZERO
        /\ dq.uscale = ZERO =>
               dq.inc = (IF dq.u = ZERO THEN dq.rel_uu
                                       ELSE RMul(dq.rel_uu, RABS(dq.u)))

\* C25: a KBBDPSol that returns success changes only the vector it was
\* handed: the band matrix, the pivots, the bandwidths, rel_uu, nge, the
\* workspace sizes and the driver state are the same after the call as before
\* it, so consecutive applies all use the factors of the last KBBDPrecon.
C25_ApplyLeavesInstance ==
    [][(KBBDPSol /\ pc' = "idle" /\ ret'.val = 0) =>
           /\ pdata' = pdata
           /\ pc' = pc
           /\ UNCHANGED <<heap, hist, last, loc>>
           /\ LastPreconSucceeded =>
                  (pdata'.PP = last.PP /\ pdata'.pivots = last.pivots)]_vars

\* an apply returned success after a successful KBBDPrecon and the instance
\* still holds the factors of that KBBDPrecon
C25_Witness ==
    /\ pc = "idle" /\ ret.op = "psol" /\ ret.val = 0
    /\ LastPreconSucceeded
    /\ pdata.PP = last.PP /\ pdata.pivots = last.pivots
    /\ pdata.n_local = 3 /\ pdata.nge > 0

\* C26: in every iteration of a solve the callbacks run in the order SysFn,
\* LSetupFn (only when setup was requested), LSolveFn, ConvTestFn: LSolveFn
\* is invoked only after this iteration's SysFn returned success, ConvTestFn
\* only after this iteration's LSolveFn returned success.
C26_CallbackOrder ==
    /\ nls.pc = "lsetup" =>
           /\ nls.callSetup /\ ~nls.failed
           /\ nls.nsys = nls.nlsolve + 1 /\ nls.nlsolve = nls.nctest
    /\ nls.pc = "lsolve" =>
           /\ ~nls.failed
           /\ nls.nsys = nls.nlsolve + 1 /\ nls.nlsolve = nls.nctest
    /\ nls.pc = "ctest" =>
           /\ ~nls.failed
           /\ nls.nsys = nls.nlsolve /\ nls.nlsolve = nls.nctest + 1
    /\ nls.pc = "sys" =>
           /\ ~nls.failed
           /\ nls.nsys = nls.nlsolve /\ nls.nlsolve = nls.nctest
    /\ nls.nlsetup > 0 => nls.callSetup
    /\ nls.nlsetup <= nls.nsys

\* the second iteration of a solve with setup requested has reached its
\* convergence test: two SysFn, one LSetupFn, two LSolveFn, one ConvTestFn
C26_Witness ==
    /\ nls.pc = "ctest" /\ nls.callSetup
    /\ nls.nsys = 2 /\ nls.nlsetup = 1 /\ nls.nlsolve = 2 /\ nls.nctest = 1

\* C27: a KBBDPSol that begins while KBBDPrecon is between BandZero and the
\* end of BandFactor on the same instance is rejected (returns a failure
\* value); no apply reads a partially built or partially factored matrix.
C27_ApplyRejectedDuringRebuild ==
    pc = "raced" => (ret.op = "psol" /\ ret.val # 0)

\* the real entries of the band store BandAllocMat(Nlocal, mu, ml, smu) hands
\* out: Nlocal columns of height smu + ml + 1
BandStoreEntries(p) == p.n_local * (StorageMu(p) + p.ml + 1)

\* C28: the rpwsize KBBDAlloc records equals the number of real entries of
\* the band store it allocated, N * (mu + 2*ml + 1), and ipwsize equals the
\* length N of the pivot array, for all N, mu, ml.
C28_WorkspaceSizes ==
    (ret.op = "alloc" /\ ret.val = 1) =>
        /\ pdata.rpwsize = BandStoreEntries(pdata)
        /\ pdata.rpwsize = pdata.n_local * (pdata.mu + 2 * pdata.ml + 1)
        /\ pdata.ipwsize = pdata.n_local

\* C29: KBBDAlloc called with kinmem NULL returns NULL without reading any
\* field of that NULL memory and without allocating anything.
C29_NullKinmemRejected ==
    (ret.op = "alloc" /\ ret.kinmemNull) =>
        /\ pc = "null" /\ ret.val = 0
        /\ ret.nullReads = {}
        /\ heap = {}

\* ------------------------------------------------------------------------
\* The Fortran interface of the dense and sparse matrices
\* ------------------------------------------------------------------------
\* solver IDs of the Fortran interfaces
FCMIX_CVODE == 1

FCMIX_IDA == 2

FCMIX_KINSOL == 3

FCMIX_ARKODE == 4

\* values of *code: the four IDs and one below, one above them
CodeInputs == 0 .. 5

\* switch(*code): the handle a case assigns, "default" for no case
Case(code) ==
    IF code = FCMIX_CVODE THEN "CVODE"
    ELSE IF code = FCMIX_IDA THEN "IDA"
    ELSE IF code = FCMIX_KINSOL THEN "KINSOL"
    ELSE IF code = FCMIX_ARKODE THEN "ARKODE"
    ELSE "default"

\* SUNMatrixNew_Dense / SUNMatrixNew_Sparse: NULL or a matrix not handed out
\* before
NewMatrix(kind, ok, n) ==
    IF ok THEN [kind |-> kind, serial |-> n + 1] ELSE NoMatrix

\* variant: the handle is kept when the constructor fails
AssignedUnlessNull(handles, code, new) ==
    IF Case(code) = "default" \/ new = NoMatrix THEN handles
    ELSE [handles EXCEPT ![Case(code)] = new]

\* F2C_x_matrix = NULL; F2C_x_matrix = SUNMatrixNew_...(...)
Assigned(handles, code, new) ==
    IF Case(code) = "default" THEN handles
    ELSE [handles EXCEPT ![Case(code)] = new]

\* *ier = 0; if (F2C_x_matrix == NULL) *ier = -1; default: *ier = -1
Ier(handles, code) ==
    IF Case(code) = "default" THEN -1
    ELSE IF handles[Case(code)] = NoMatrix THEN -1 ELSE 0

FSunMatrixInit(op, kind) ==
    /\ fcall.n < MaxInits
    /\ \E code \in CodeInputs, ok \in BOOLEAN :
          LET handles == Assigned(F2C_matrix, code, NewMatrix(kind, ok, fcall.n))
          IN  /\ F2C_matrix' = handles
              /\ fcall' = [op |-> op, code |-> code, ier |-> Ier(handles, code),
                           before |-> F2C_matrix, n |-> fcall.n + 1]
    /\ UNCHANGED <<bbdvars, nls, dqvars>>

FSUNMATRIX_INITD == FSunMatrixInit("INITD", "dense")

FSUNMATRIX_INITS == FSunMatrixInit("INITS", "sparse")

NextFMat ==
    \/ FSUNMATRIX_INITD
    \/ FSUNMATRIX_INITS

SpecFMat == Init /\ [][NextFMat]_vars

\* C30: FSUNMATRIX_INITD and FSUNMATRIX_INITS with the code of one of the
\* four solvers replace that solver's handle only, and leave ier 0 exactly
\* when the new handle is not NULL, -1 otherwise; with any other code ier is
\* -1 and no handle changes.
C30_OnlyNamedHandleReplaced ==
    fcall.op # "none" =>
        IF fcall.code \in {FCMIX_CVODE, FCMIX_IDA, FCMIX_KINSOL, FCMIX_ARKODE}
        THEN /\ \A s \in Solvers \ {Case(fcall.code)} :
                    F2C_matrix[s] = fcall.before[s]
             /\ fcall.ier \in {0, -1}
             /\ fcall.ier = 0 <=> F2C_matrix[Case(fcall.code)] # NoMatrix
             /\ F2C_matrix[Case(fcall.code)] # NoMatrix =>
                    /\ F2C_matrix[Case(fcall.code)].serial = fcall.n
                    /\ F2C_matrix[Case(fcall.code)].kind =
                           (IF fcall.op = "INITD" THEN "dense" ELSE "sparse")
        ELSE /\ fcall.ier = -1
             /\ F2C_matrix = fcall.before

\* FSUNMATRIX_INITS for KINSOL succeeded after FSUNMATRIX_INITD for CVODE had
\* succeeded, and the CVODE handle is still the dense matrix
C30_Witness ==
    /\ fcall.op = "INITS" /\ fcall.code = FCMIX_KINSOL /\ fcall.ier = 0
    /\ F2C_matrix["KINSOL"] = [kind |-> "sparse", serial |-> 2]
    /\ F2C_matrix["CVODE"] = [kind |-> "dense", serial |-> 1]
    /\ fcall.before["KINSOL"] = NoMatrix

====
